---- MODULE Spec2Model ----
(***************************************************************************)
(* Package errkind: capability queries (HasCode, HasStatus, Status, Code,  *)
(* IsTemporary, IsPublic) over error values, and the constructors that     *)
(* build errors carrying those capabilities.                               *)
(*                                                                         *)
(* A string is a sequence of one-character strings.  An error value is a   *)
(* record tagged by the Go type that holds it ("kind"); nil is the record  *)
(* Nil.  The state is what one caller holds: the error it constructed,     *)
(* the value it has after wrapping it, and the result of its last query.   *)
(***************************************************************************)
EXTENDS Integers, Sequences, FiniteSets

VARIABLES
    args,     \* the constructor call that produced the error: its name and inputs
    made,     \* the value that constructor returned
    err,      \* the value the caller holds now: made, wrapped zero or more times
    labels,   \* the messages of the errors.Wrap calls applied to made, innermost first
    withs,    \* the number of With calls applied to made
    res       \* the last query on err: its name, its targets and what it returned

vars == <<args, made, err, labels, withs, res>>

----------------------------------------------------------------------------
(* Bounds of the model *)

MaxLen == 2
MaxFrags == 2
MaxTargets == 2
MaxWraps == 2

(* Program constants *)

StatusBadRequest == 400
StatusForbidden == 403
StatusNotImplemented == 501

----------------------------------------------------------------------------
(* Strings *)

Range(s) == {s[i] : i \in DOMAIN s}

SeqsUpTo(S, n) == UNION {[1..k -> S] : k \in 0..n}

\* unicode.IsSpace, on the characters the model draws from
IsSpace(c) == c \in {" ", "\t", "\n", "\r"}

RECURSIVE TrimLeft(_)
TrimLeft(s) ==
    IF s = <<>> THEN s
    ELSE IF IsSpace(Head(s)) THEN TrimLeft(Tail(s)) ELSE s

RECURSIVE TrimRight(_)
TrimRight(s) ==
    IF s = <<>> THEN s
    ELSE IF IsSpace(s[Len(s)]) THEN TrimRight(SubSeq(s, 1, Len(s) - 1)) ELSE s

\* strings.TrimSpace
TrimSpace(s) == TrimRight(TrimLeft(s))

\* strings.Join
RECURSIVE Join(_, _)
Join(elems, sep) ==
    IF elems = <<>> THEN <<>>
    ELSE IF Len(elems) = 1 THEN elems[1]
    ELSE elems[1] \o sep \o Join(Tail(elems), sep)

----------------------------------------------------------------------------
(* Error values *)

Nil == [kind |-> "nil"]

publicStatusError(message, status) ==
    [kind |-> "publicStatusError", message |-> message, status |-> status]

publicStatusCodeError(message, status, code) ==
    [kind |-> "publicStatusCodeError", message |-> message, status |-> status,
     code |-> code]

temporaryError(msg) == [kind |-> "temporaryError", message |-> msg]

\* An error type of another package: it implements the interfaces in impl,
\* and its methods return the fields of the same name.
foreignError(message, impl, code, statusCode, status, temporary, public) ==
    [kind |-> "foreign", message |-> message, impl |-> impl, code |-> code,
     statusCode |-> statusCode, status |-> status, temporary |-> temporary,
     public |-> public]

\* errors.Wrap(err, msg): a new error whose cause is err
Wrap(e, msg) == [kind |-> "wrapper", msg |-> msg, keyvals |-> <<>>, cause |-> e]

IsWrapper(e) == e.kind = "wrapper"

\* errors.Cause(err): the innermost error of the chain; nil only for nil
RECURSIVE Cause(_)
Cause(e) == IF IsWrapper(e) THEN Cause(e.cause) ELSE e

\* The With method of the wrapper: the same error with the pairs added
WrapperWith(e, keyvals) == [e EXCEPT !.keyvals = @ \o keyvals]

\* The With method of publicStatusError and of publicStatusCodeError
PublicWith(s, keyvals) == WrapperWith(Wrap(s, <<>>), keyvals)

\* e.With(keyvals...), dispatched on the dynamic type of e
With(e, keyvals) ==
    IF IsWrapper(e) THEN WrapperWith(e, keyvals) ELSE PublicWith(e, keyvals)

\* The method sets: which of the interfaces the dynamic type of e satisfies
Implements(e, iface) ==
    CASE e.kind = "publicStatusError" ->
            iface \in {"statusCoder", "statuser", "publicer"}
      [] e.kind = "publicStatusCodeError" ->
            iface \in {"statusCoder", "statuser", "coder", "publicer"}
      [] e.kind = "temporaryError" -> iface = "temporaryer"
      [] e.kind = "foreign" -> iface \in e.impl
      [] OTHER -> FALSE

StatusCodeOf(e) == IF e.kind = "foreign" THEN e.statusCode ELSE e.status
StatusOf(e) == e.status
CodeOf(e) == e.code
TemporaryOf(e) == IF e.kind = "foreign" THEN e.temporary ELSE TRUE
PublicOf(e) == IF e.kind = "foreign" THEN e.public ELSE TRUE

\* The text a wrapper adds: its message and its key/value pairs
WrapperText(e) ==
    Join((IF e.msg = <<>> THEN <<>> ELSE <<e.msg>>)
            \o [i \in DOMAIN e.keyvals |->
                    e.keyvals[i][1] \o <<"=">> \o e.keyvals[i][2]],
         <<" ">>)

\* The Error method of publicStatusError, publicStatusCodeError and
\* temporaryError, and of an error of another package
MessageOf(e) == e.message

\* err.Error(): a wrapper puts its text and ": " before the message of its
\* cause, and nothing when it has no text
RECURSIVE Error(_)
Error(e) ==
    IF IsWrapper(e)
    THEN IF WrapperText(e) = <<>> THEN Error(e.cause)
         ELSE WrapperText(e) \o <<":", " ">> \o Error(e.cause)
    ELSE MessageOf(e)

----------------------------------------------------------------------------
(* Capability queries *)

\* HasCode written without resolving the cause
HasCode_NoCause(e, codes) ==
    IF e.kind = "nil" THEN FALSE
    ELSE IF Implements(e, "coder")
         THEN \E i \in DOMAIN codes : CodeOf(e) = codes[i]
         ELSE FALSE

\* HasCode written as a comparison of the targets with the code, the empty
\* string when there is none
HasCode_ViaCode(e, codes) ==
    LET c == Cause(e)
        code == IF c.kind # "nil" /\ Implements(c, "coder") THEN CodeOf(c) ELSE <<>>
    IN  \E i \in DOMAIN codes : code = codes[i]

HasCode(e, codes) ==
    LET c == Cause(e) IN
    IF c.kind = "nil" THEN FALSE
    ELSE IF Implements(c, "coder")
         THEN \E i \in DOMAIN codes : CodeOf(c) = codes[i]
         ELSE FALSE

\* HasStatus that asks a statusCoder for StatusCode() only
HasStatus_ElseIf(e, statuses) ==
    LET c == Cause(e) IN
    IF c.kind = "nil" THEN FALSE
    ELSE IF Implements(c, "statusCoder")
         THEN \E i \in DOMAIN statuses : StatusCodeOf(c) = statuses[i]
         ELSE IF Implements(c, "statuser")
              THEN \E i \in DOMAIN statuses : StatusOf(c) = statuses[i]
              ELSE FALSE

HasStatus(e, statuses) ==
    LET c == Cause(e) IN
    IF c.kind = "nil" THEN FALSE
    ELSE IF Implements(c, "statusCoder")
            /\ \E i \in DOMAIN statuses : StatusCodeOf(c) = statuses[i]
         THEN TRUE
         ELSE IF Implements(c, "statuser")
                 /\ \E i \in DOMAIN statuses : StatusOf(c) = statuses[i]
              THEN TRUE
              ELSE FALSE

\* Status that asks for Status() before StatusCode()
Status_StatuserFirst(e) ==
    LET c == Cause(e) IN
    IF c.kind = "nil" THEN 0
    ELSE IF Implements(c, "statuser") THEN StatusOf(c)
    ELSE IF Implements(c, "statusCoder") THEN StatusCodeOf(c)
    ELSE 0

Status(e) ==
    LET c == Cause(e) IN
    IF c.kind = "nil" THEN 0
    ELSE IF Implements(c, "statusCoder") THEN StatusCodeOf(c)
    ELSE IF Implements(c, "statuser") THEN StatusOf(c)
    ELSE 0

Code(e) ==
    LET c == Cause(e) IN
    IF c.kind = "nil" THEN <<>>
    ELSE IF Implements(c, "coder") THEN CodeOf(c)
    ELSE <<>>

\* IsTemporary written without resolving the cause
IsTemporary_NoCause(e) ==
    IF e.kind = "nil" THEN FALSE
    ELSE IF Implements(e, "temporaryer") THEN TemporaryOf(e)
    ELSE FALSE

IsTemporary(e) ==
    LET c == Cause(e) IN
    IF c.kind = "nil" THEN FALSE
    ELSE IF Implements(c, "temporaryer") THEN TemporaryOf(c)
    ELSE FALSE

\* IsPublic that resolves the cause first, as the other queries do
IsPublic_OfCause(e) ==
    LET c == Cause(e) IN
    IF Implements(c, "publicer") THEN PublicOf(c) ELSE FALSE

IsPublic(e) ==
    IF Implements(e, "publicer") THEN PublicOf(e) ELSE FALSE

----------------------------------------------------------------------------
(* Constructors *)

\* makeMessage that keeps the blank fragments
makeMessage_KeepBlank(defaultMsg, msgs) ==
    LET messages == [i \in DOMAIN msgs |-> TrimSpace(msgs[i])]
    IN  IF Len(messages) = 0 THEN defaultMsg ELSE Join(messages, <<" ">>)

makeMessage(defaultMsg, msgs) ==
    LET trimmed == [i \in DOMAIN msgs |-> TrimSpace(msgs[i])]
        messages == SelectSeq(trimmed, LAMBDA m : m # <<>>)
    IN  IF Len(messages) = 0 THEN defaultMsg ELSE Join(messages, <<" ">>)

Public(message, status) == publicStatusError(message, status)

\* PublicWithCode that tests the trimmed code and keeps the code as passed
PublicWithCode_RawCode(message, status, code) ==
    IF TrimSpace(code) = <<>> THEN Public(message, status)
    ELSE publicStatusCodeError(message, status, code)

\* PublicWithCode without the test for a blank code
PublicWithCode_KeepBlank(message, status, code) ==
    publicStatusCodeError(message, status, TrimSpace(code))

PublicWithCode(message, status, code) ==
    LET c == TrimSpace(code) IN
    IF c = <<>> THEN Public(message, status)
    ELSE publicStatusCodeError(message, status, c)

DefaultBadRequest == <<"b", "a", "d", " ", "r", "e", "q", "u", "e", "s", "t">>
DefaultForbidden == <<"f", "o", "r", "b", "i", "d", "d", "e", "n">>
DefaultNotImplemented ==
    <<"n", "o", "t", " ", "i", "m", "p", "l", "e", "m", "e", "n", "t", "e", "d">>

BadRequest(msg) == Public(makeMessage(DefaultBadRequest, msg), StatusBadRequest)

Forbidden(msg) == Public(makeMessage(DefaultForbidden, msg), StatusForbidden)

\* NotImplemented that returns the public error without the caller attached
NotImplemented_NoWith(msg, caller) ==
    Public(makeMessage(DefaultNotImplemented, msg), StatusNotImplemented)

\* caller stands for stack.Caller(1), the call site
NotImplemented(msg, caller) ==
    PublicWith(Public(makeMessage(DefaultNotImplemented, msg), StatusNotImplemented),
         <<  <<  <<"c", "a", "l", "l", "e", "r">>, caller  >>  >>)

Temporary(msg) == Wrap(temporaryError(msg), <<>>)

----------------------------------------------------------------------------
(* The inputs the caller draws from *)

Chars == {"a", " "}
Strings == SeqsUpTo(Chars, MaxLen)
Messages == {<<"x">>, <<"p", " ", "q">>}
Statuses == {0, 402, 501}
Fragments == {<<>>, <<" ", " ">>, <<"a">>, <<" ", "b", " ">>}
FragLists == SeqsUpTo(Fragments, MaxFrags)
CallSites == {<<"f">>}
Labels == {<<"y">>}
KeyVals == {<<  <<  <<"k">>, <<"v">>  >>  >>}
TargetCodes == {<<>>, <<"a">>, <<"A">>}
TargetStatuses == {0, 402}
CodeLists == SeqsUpTo(TargetCodes, MaxTargets)
StatusLists == SeqsUpTo(TargetStatuses, MaxTargets)

ForeignMessage == <<"e">>
Interfaces == {"coder", "statusCoder", "statuser", "temporaryer", "publicer"}

\* What the methods of an error of another package return, where it has them
ForeignValues ==
    {[code |-> <<"A">>, statusCode |-> 0, status |-> 402,
      temporary |-> TRUE, public |-> TRUE],
     [code |-> <<>>, statusCode |-> 402, status |-> 0,
      temporary |-> FALSE, public |-> FALSE]}

\* The errors of other packages: every combination of the interfaces; a
\* method the error does not have returns nothing, and its field is the zero
\* value.
ForeignErrors ==
    {foreignError(ForeignMessage, impl,
                  IF "coder" \in impl THEN v.code ELSE <<>>,
                  IF "statusCoder" \in impl THEN v.statusCode ELSE 0,
                  IF "statuser" \in impl THEN v.status ELSE 0,
                  IF "temporaryer" \in impl THEN v.temporary ELSE FALSE,
                  IF "publicer" \in impl THEN v.public ELSE FALSE) :
        impl \in SUBSET Interfaces, v \in ForeignValues}

----------------------------------------------------------------------------
(* The caller *)

NoArgs == [fn |-> "none"]
NoRes == [fn |-> "none"]

Init ==
    /\ args = NoArgs
    /\ made = Nil
    /\ err = Nil
    /\ labels = <<>>
    /\ withs = 0
    /\ res = NoRes

\* A constructor is called by a caller that holds no error, and what it
\* returns is the error the caller holds.

CallPublic ==
    /\ args.fn = "none"
    /\ \E m \in Messages, s \in Statuses :
        /\ args' = [fn |-> "Public", message |-> m, status |-> s]
        /\ made' = Public(m, s)
    /\ err' = made'
    /\ res' = NoRes
    /\ UNCHANGED <<labels, withs>>

CallPublicWithCode ==
    /\ args.fn = "none"
    /\ \E m \in Messages, s \in Statuses, c \in Strings :
        /\ args' = [fn |-> "PublicWithCode", message |-> m, status |-> s, code |-> c]
        /\ made' = PublicWithCode(m, s, c)
    /\ err' = made'
    /\ res' = NoRes
    /\ UNCHANGED <<labels, withs>>

CallBadRequest ==
    /\ args.fn = "none"
    /\ \E msg \in FragLists :
        /\ args' = [fn |-> "BadRequest", msg |-> msg]
        /\ made' = BadRequest(msg)
    /\ err' = made'
    /\ res' = NoRes
    /\ UNCHANGED <<labels, withs>>

CallForbidden ==
    /\ args.fn = "none"
    /\ \E msg \in FragLists :
        /\ args' = [fn |-> "Forbidden", msg |-> msg]
        /\ made' = Forbidden(msg)
    /\ err' = made'
    /\ res' = NoRes
    /\ UNCHANGED <<labels, withs>>

CallNotImplemented ==
    /\ args.fn = "none"
    /\ \E msg \in FragLists, caller \in CallSites :
        /\ args' = [fn |-> "NotImplemented", msg |-> msg]
        /\ made' = NotImplemented(msg, caller)
    /\ err' = made'
    /\ res' = NoRes
    /\ UNCHANGED <<labels, withs>>

CallTemporary ==
    /\ args.fn = "none"
    /\ \E m \in Messages :
        /\ args' = [fn |-> "Temporary", message |-> m]
        /\ made' = Temporary(m)
    /\ err' = made'
    /\ res' = NoRes
    /\ UNCHANGED <<labels, withs>>

\* An error returned by another package
ReceiveForeign ==
    /\ args.fn = "none"
    /\ args' = [fn |-> "foreign"]
    /\ made' \in ForeignErrors
    /\ err' = made'
    /\ res' = NoRes
    /\ UNCHANGED <<labels, withs>>

\* errors.Wrap(err, label)
CallWrap ==
    /\ err.kind # "nil"
    /\ Len(labels) + withs < MaxWraps
    /\ \E l \in Labels :
        /\ err' = Wrap(err, l)
        /\ labels' = Append(labels, l)
    /\ res' = NoRes
    /\ UNCHANGED <<args, made, withs>>

\* err.With(keyvals...), for the errors that have the method
CallWith ==
    /\ \/ IsWrapper(err)
       \/ err.kind \in {"publicStatusError", "publicStatusCodeError"}
    /\ Len(labels) + withs < MaxWraps
    /\ \E kv \in KeyVals : err' = With(err, kv)
    /\ withs' = withs + 1
    /\ res' = NoRes
    /\ UNCHANGED <<args, made, labels>>

\* The caller drops the error
Discard ==
    /\ args.fn # "none"
    /\ args' = NoArgs
    /\ made' = Nil
    /\ err' = Nil
    /\ labels' = <<>>
    /\ withs' = 0
    /\ res' = NoRes

\* The queries change nothing: the caller keeps the error and has a result.

CallHasCode ==
    /\ \E codes \in CodeLists :
        res' = [fn |-> "HasCode", targets |-> codes, out |-> HasCode(err, codes)]
    /\ UNCHANGED <<args, made, err, labels, withs>>

CallHasStatus ==
    /\ \E statuses \in StatusLists :
        res' = [fn |-> "HasStatus", targets |-> statuses,
                out |-> HasStatus(err, statuses)]
    /\ UNCHANGED <<args, made, err, labels, withs>>

CallStatus ==
    /\ res' = [fn |-> "Status", out |-> Status(err)]
    /\ UNCHANGED <<args, made, err, labels, withs>>

CallCode ==
    /\ res' = [fn |-> "Code", out |-> Code(err)]
    /\ UNCHANGED <<args, made, err, labels, withs>>

CallIsTemporary ==
    /\ res' = [fn |-> "IsTemporary", out |-> IsTemporary(err)]
    /\ UNCHANGED <<args, made, err, labels, withs>>

CallIsPublic ==
    /\ res' = [fn |-> "IsPublic", out |-> IsPublic(err)]
    /\ UNCHANGED <<args, made, err, labels, withs>>

\* The documented use: err = errors.Cause(err); errkind.IsPublic(err)
CallIsPublicOfCause ==
    /\ res' = [fn |-> "IsPublicOfCause", out |-> IsPublic(Cause(err))]
    /\ UNCHANGED <<args, made, err, labels, withs>>

\* err.Error(), which a nil error does not have
CallError ==
    /\ err.kind # "nil"
    /\ res' = [fn |-> "Error", out |-> Error(err)]
    /\ UNCHANGED <<args, made, err, labels, withs>>

Next ==
    \/ CallPublic
    \/ CallPublicWithCode
    \/ CallBadRequest
    \/ CallForbidden
    \/ CallNotImplemented
    \/ CallTemporary
    \/ ReceiveForeign
    \/ CallWrap
    \/ CallWith
    \/ Discard
    \/ CallHasCode
    \/ CallHasStatus
    \/ CallStatus
    \/ CallCode
    \/ CallIsTemporary
    \/ CallIsPublic
    \/ CallIsPublicOfCause
    \/ CallError

Spec == Init /\ [][Next]_vars

----------------------------------------------------------------------------
(* What the claims speak of *)

\* made has been wrapped since it was constructed
Wrapped == Len(labels) + withs > 0

\* empty or whitespace-only
Blank(s) == \A i \in DOMAIN s : IsSpace(s[i])

\* s without its leading and trailing whitespace
Trimmed(s) ==
    LET keep == {i \in DOMAIN s : ~IsSpace(s[i])} IN
    IF keep = {} THEN <<>>
    ELSE SubSeq(s, CHOOSE i \in keep : \A j \in keep : i <= j,
                   CHOOSE i \in keep : \A j \in keep : i >= j)

\* the fragments that are not blank, trimmed, in their order, one space between
RECURSIVE Normalized(_)
Normalized(frags) ==
    IF frags = <<>> THEN <<>>
    ELSE LET rest == Normalized(Tail(frags)) IN
         IF Blank(Head(frags)) THEN rest
         ELSE IF rest = <<>> THEN Trimmed(Head(frags))
         ELSE Trimmed(Head(frags)) \o <<" ">> \o rest

\* the labels of the wraps, outermost first, each followed by ": "
RECURSIVE LabelPrefix(_)
LabelPrefix(ls) ==
    IF ls = <<>> THEN <<>>
    ELSE ls[Len(ls)] \o <<":", " ">> \o LabelPrefix(SubSeq(ls, 1, Len(ls) - 1))

\* the innermost error of what the constructor returned
Root == Cause(made)

\* C1 as stated: for a non-blank code, PublicWithCode(message, status, code)
\* has Status = status, Code = the code exactly as passed, IsPublic = true.
C1_AsStated ==
    (args.fn = "PublicWithCode" /\ ~Blank(args.code) /\ ~Wrapped) =>
        /\ res.fn = "Status" => res.out = args.status
        /\ res.fn = "Code" => res.out = args.code
        /\ res.fn = "IsPublic" => res.out = TRUE

\* C1 amended: for a non-blank code, PublicWithCode(message, status, code)
\* has Status = status, Code = the code with its leading and trailing
\* whitespace removed, IsPublic = true.
C1_TrimmedCode ==
    (args.fn = "PublicWithCode" /\ ~Blank(args.code) /\ ~Wrapped) =>
        /\ res.fn = "Status" => res.out = args.status
        /\ res.fn = "Code" => res.out = Trimmed(args.code)
        /\ res.fn = "IsPublic" => res.out = TRUE

C1_Witness ==
    /\ args.fn = "PublicWithCode"
    /\ args.code = <<" ", "a">>
    /\ ~Wrapped
    /\ res.fn = "Code"
    /\ res.out = <<"a">>

\* C2: PublicWithCode with a blank code returns what Public returns: Code is
\* empty, HasCode is false for every target list (the empty code included),
\* Status is the status and the error is public; and no error PublicWithCode
\* returns has an empty code behind the coder interface.
C2_BlankCodeIsPublic ==
    args.fn = "PublicWithCode" =>
        /\ Implements(Cause(err), "coder") => CodeOf(Cause(err)) # <<>>
        /\ Blank(args.code) =>
            /\ made = Public(args.message, args.status)
            /\ ~Implements(Cause(err), "coder")
            /\ res.fn = "Code" => res.out = <<>>
            /\ res.fn = "HasCode" => res.out = FALSE
            /\ res.fn = "Status" => res.out = args.status
            /\ (res.fn = "IsPublic" /\ ~Wrapped) => res.out = TRUE

C2_Witness ==
    /\ args.fn = "PublicWithCode"
    /\ args.code = <<" ">>
    /\ res.fn = "HasCode"
    /\ <<>> \in Range(res.targets)
    /\ res.out = FALSE

\* C3: IsPublic of an error that has been wrapped (Wrap or With, once or
\* more) is false, also when the error wrapped is public; IsPublic of the
\* cause of the wrapped error is IsPublic of the error wrapped, when that
\* error is not itself a wrapper.
C3_WrappedNotPublic ==
    /\ (Wrapped /\ res.fn = "IsPublic") => res.out = FALSE
    /\ (~IsWrapper(made) /\ res.fn = "IsPublicOfCause") =>
            res.out = (Implements(made, "publicer") /\ PublicOf(made))

C3_Witness ==
    /\ made.kind = "publicStatusCodeError"
    /\ Len(labels) >= 1
    /\ withs >= 1
    /\ res.fn = "IsPublic"
    /\ res.out = FALSE

\* C4: HasStatus is true exactly when the resolved cause is not nil and its
\* StatusCode() or its Status() is one of the targets, however often the
\* error has been wrapped; with no target it is false.
C4_HasStatus ==
    res.fn = "HasStatus" =>
        res.out =
            /\ Root.kind # "nil"
            /\ \/ /\ Implements(Root, "statusCoder")
                  /\ StatusCodeOf(Root) \in Range(res.targets)
               \/ /\ Implements(Root, "statuser")
                  /\ StatusOf(Root) \in Range(res.targets)

C4_Witness ==
    /\ res.fn = "HasStatus"
    /\ res.out = TRUE
    /\ Wrapped
    /\ Implements(Root, "statusCoder")
    /\ Implements(Root, "statuser")
    /\ StatusCodeOf(Root) \notin Range(res.targets)
    /\ StatusOf(Root) \in Range(res.targets)

\* C5: HasCode is true exactly when the resolved cause is not nil, is a
\* coder, and its code is one of the targets, character for character,
\* however often the error has been wrapped.
C5_HasCode ==
    res.fn = "HasCode" =>
        res.out =
            /\ Root.kind # "nil"
            /\ Implements(Root, "coder")
            /\ CodeOf(Root) \in Range(res.targets)

C5_Witness ==
    /\ args.fn = "PublicWithCode"
    /\ Len(labels) >= 1
    /\ withs >= 1
    /\ res.fn = "HasCode"
    /\ res.out = TRUE

\* C6: Temporary(x) is temporary, wrapped or not, and its message is x
\* preceded by the labels of the wraps, each followed by ": "; an error whose
\* resolved cause is no temporaryer is not temporary.
C6_Temporary ==
    /\ args.fn = "Temporary" =>
        /\ res.fn = "IsTemporary" => res.out = TRUE
        /\ (res.fn = "Error" /\ withs = 0) =>
                res.out = LabelPrefix(labels) \o args.message
    /\ (res.fn = "IsTemporary" /\ ~Implements(Root, "temporaryer")) =>
            res.out = FALSE

C6_Witness ==
    /\ args.fn = "Temporary"
    /\ args.message = <<"x">>
    /\ labels = <<  <<"y">>  >>
    /\ withs = 0
    /\ res.fn = "Error"
    /\ res.out = <<"y", ":", " ", "x">>

\* C7: on a nil error every query returns its zero value: false, the empty
\* string, 0.
C7_NilZeroValues ==
    err.kind = "nil" =>
        /\ res.fn \in {"HasCode", "HasStatus", "IsTemporary", "IsPublic",
                       "IsPublicOfCause"} => res.out = FALSE
        /\ res.fn = "Code" => res.out = <<>>
        /\ res.fn = "Status" => res.out = 0

C7_Witness ==
    /\ err.kind = "nil"
    /\ res.fn = "HasCode"
    /\ <<>> \in Range(res.targets)
    /\ res.out = FALSE

\* C8: the message of BadRequest, Forbidden and NotImplemented is the
\* fragments that are not blank, trimmed, in their order, joined by one
\* space, and the default message when no fragment is left.
C8_MakeMessage ==
    args.fn \in {"BadRequest", "Forbidden", "NotImplemented"} =>
        LET default == CASE args.fn = "BadRequest" -> DefaultBadRequest
                         [] args.fn = "Forbidden" -> DefaultForbidden
                         [] args.fn = "NotImplemented" -> DefaultNotImplemented
        IN  /\ Root.message =
                    IF \A i \in DOMAIN args.msg : Blank(args.msg[i])
                    THEN default
                    ELSE Normalized(args.msg)
            /\ (res.fn = "Error" /\ ~IsWrapper(err)) => res.out = Root.message

C8_Witness ==
    /\ args.fn = "BadRequest"
    /\ args.msg = <<  <<" ", " ">>, <<" ", "b", " ">>  >>
    /\ res.fn = "Error"
    /\ res.out = <<"b">>

\* C9: Status is the StatusCode() of the resolved cause if it is a
\* statusCoder, else its Status() if it is a statuser, else 0, however often
\* the error has been wrapped.
C9_Status ==
    res.fn = "Status" =>
        res.out =
            IF Root.kind # "nil" /\ Implements(Root, "statusCoder")
            THEN StatusCodeOf(Root)
            ELSE IF Root.kind # "nil" /\ Implements(Root, "statuser")
            THEN StatusOf(Root)
            ELSE 0

C9_Witness ==
    /\ res.fn = "Status"
    /\ Wrapped
    /\ Implements(Root, "statusCoder")
    /\ Implements(Root, "statuser")
    /\ StatusOf(Root) # StatusCodeOf(Root)
    /\ res.out = StatusCodeOf(Root)
    /\ res.out # 0

\* C10: the cause of the error of BadRequest, Forbidden and NotImplemented
\* is public with status 400, 403 and 501; BadRequest and Forbidden return
\* it, and it is public; NotImplemented returns a wrapper of it, which is not
\* public and has status 501.
C10_Sugar ==
    args.fn \in {"BadRequest", "Forbidden", "NotImplemented"} =>
        LET status == CASE args.fn = "BadRequest" -> 400
                        [] args.fn = "Forbidden" -> 403
                        [] args.fn = "NotImplemented" -> 501
        IN  /\ Implements(Root, "publicer") /\ PublicOf(Root)
            /\ Implements(Root, "statusCoder") /\ StatusCodeOf(Root) = status
            /\ Implements(Root, "statuser") /\ StatusOf(Root) = status
            /\ IsWrapper(made) = (args.fn = "NotImplemented")
            /\ res.fn = "Status" => res.out = status
            /\ res.fn = "IsPublicOfCause" => res.out = TRUE
            /\ (res.fn = "IsPublic" /\ ~Wrapped) =>
                    res.out = (args.fn # "NotImplemented")

C10_Witness ==
    /\ args.fn = "NotImplemented"
    /\ ~Wrapped
    /\ res.fn = "IsPublic"
    /\ res.out = FALSE

====
